---- MODULE Spec2Model ----
(***************************************************************************)
(* Model of the route-keyed rule engine of src/src/lib.rs: two process-wide *)
(* maps (ROUTE_ENGINES, ROUTE_PATTERN_COUNTS), each behind its own RwLock,  *)
(* and the exported operations that load, clear and check rules.            *)
(*                                                                         *)
(* Byte strings are sequences of integers 0..255.  Patterns, texts and      *)
(* blobs are byte strings, so that base64 decoding, JSON parsing, UTF-8     *)
(* validation and the substring scan are computed, not assumed.             *)
(***************************************************************************)
EXTENDS Integers, Sequences, FiniteSets, TLC

\* ------------------------------------------------------------------------
\* Bounds of the model (not program constants)
\* ------------------------------------------------------------------------

\* the threads make at most MaxCalls calls into the library, all together
MaxCalls == 3

\* ------------------------------------------------------------------------
\* str::from_utf8 / CStr::to_str : UTF-8 validation
\* ------------------------------------------------------------------------

IsCont(b) == b >= 128 /\ b <= 191

RECURSIVE Utf8From(_, _)
Utf8From(s, i) ==
    IF i > Len(s) THEN TRUE
    ELSE LET b == s[i]
             n == Len(s)
         IN  IF b < 128 THEN Utf8From(s, i + 1)
             ELSE IF b >= 194 /\ b <= 223
                  THEN i + 1 <= n /\ IsCont(s[i + 1]) /\ Utf8From(s, i + 2)
             ELSE IF b >= 224 /\ b <= 239
                  THEN /\ i + 2 <= n
                       /\ IsCont(s[i + 1]) /\ IsCont(s[i + 2])
                       /\ (b = 224 => s[i + 1] >= 160)
                       /\ (b = 237 => s[i + 1] <= 159)
                       /\ Utf8From(s, i + 3)
             ELSE IF b >= 240 /\ b <= 244
                  THEN /\ i + 3 <= n
                       /\ IsCont(s[i + 1]) /\ IsCont(s[i + 2]) /\ IsCont(s[i + 3])
                       /\ (b = 240 => s[i + 1] >= 144)
                       /\ (b = 244 => s[i + 1] <= 143)
                       /\ Utf8From(s, i + 4)
             ELSE FALSE

Utf8Valid(s) == Utf8From(s, 1)

\* ------------------------------------------------------------------------
\* base64::engine::general_purpose::STANDARD.decode
\* (standard alphabet, canonical padding required, no trailing bits)
\* ------------------------------------------------------------------------

B64Val(c) ==
    IF c >= 65 /\ c <= 90 THEN c - 65
    ELSE IF c >= 97 /\ c <= 122 THEN c - 71
    ELSE IF c >= 48 /\ c <= 57 THEN c + 4
    ELSE IF c = 43 THEN 62
    ELSE IF c = 47 THEN 63
    ELSE -1

B64Err == [ok |-> FALSE, bytes |-> <<>>]

RECURSIVE B64Quads(_, _, _)
B64Quads(s, i, acc) ==
    IF i > Len(s) THEN [ok |-> TRUE, bytes |-> acc]
    ELSE LET v1 == B64Val(s[i])
             v2 == B64Val(s[i + 1])
             v3 == B64Val(s[i + 2])
             v4 == B64Val(s[i + 3])
             last == (i + 3 = Len(s))
             b1 == v1 * 4 + (v2 \div 16)
             b2 == (v2 % 16) * 16 + (v3 \div 4)
             b3 == (v3 % 4) * 64 + v4
         IN  IF v1 < 0 \/ v2 < 0 THEN B64Err
             ELSE IF last /\ s[i + 2] = 61
                  THEN IF s[i + 3] = 61 /\ v2 % 16 = 0
                       THEN [ok |-> TRUE, bytes |-> Append(acc, b1)]
                       ELSE B64Err
             ELSE IF v3 < 0 THEN B64Err
             ELSE IF last /\ s[i + 3] = 61
                  THEN IF v3 % 4 = 0
                       THEN [ok |-> TRUE, bytes |-> acc \o <<b1, b2>>]
                       ELSE B64Err
             ELSE IF v4 < 0 THEN B64Err
             ELSE B64Quads(s, i + 4, acc \o <<b1, b2, b3>>)

Base64Decode(s) ==
    IF Len(s) % 4 # 0 THEN B64Err ELSE B64Quads(s, 1, <<>>)

\* ------------------------------------------------------------------------
\* serde_json::from_slice::<Vec<String>>
\* The parser is exact on payloads without \u escapes.
\* ------------------------------------------------------------------------

IsWs(c) == c \in {32, 9, 10, 13}

RECURSIVE SkipWs(_, _)
SkipWs(d, i) ==
    IF i <= Len(d) /\ IsWs(d[i]) THEN SkipWs(d, i + 1) ELSE i

JsonErr == [ok |-> FALSE, val |-> <<>>, next |-> 0]

\* escape letter -> byte it denotes:  \" \\ \/ \b \f \n \r \t
Unescape(e) ==
    CASE e = 34 -> 34
      [] e = 92 -> 92
      [] e = 47 -> 47
      [] e = 98 -> 8
      [] e = 102 -> 12
      [] e = 110 -> 10
      [] e = 114 -> 13
      [] e = 116 -> 9
      [] OTHER -> -1

\* d[i] is the first byte after the opening quote
RECURSIVE JsonStr(_, _, _)
JsonStr(d, i, acc) ==
    IF i > Len(d) THEN JsonErr
    ELSE LET c == d[i]
         IN  IF c = 34
             THEN IF Utf8Valid(acc)
                  THEN [ok |-> TRUE, val |-> acc, next |-> i + 1]
                  ELSE JsonErr
             ELSE IF c < 32 THEN JsonErr
             ELSE IF c = 92
                  THEN IF i + 1 > Len(d) \/ Unescape(d[i + 1]) < 0
                       THEN JsonErr
                       ELSE JsonStr(d, i + 2, Append(acc, Unescape(d[i + 1])))
             ELSE JsonStr(d, i + 1, Append(acc, c))

\* d[i] is the first byte after '[' (first = TRUE) or after ','
RECURSIVE JsonElems(_, _, _, _)
JsonElems(d, i, acc, first) ==
    LET j == SkipWs(d, i)
    IN  IF j > Len(d) THEN JsonErr
        ELSE IF d[j] = 93
             THEN IF first THEN [ok |-> TRUE, val |-> acc, next |-> j + 1]
                  ELSE JsonErr
        ELSE IF d[j] # 34 THEN JsonErr
        ELSE LET s == JsonStr(d, j + 1, <<>>)
                 k == SkipWs(d, s.next)
             IN  IF ~s.ok \/ k > Len(d) THEN JsonErr
                 ELSE IF d[k] = 44
                      THEN JsonElems(d, k + 1, Append(acc, s.val), FALSE)
                 ELSE IF d[k] = 93
                      THEN [ok |-> TRUE, val |-> Append(acc, s.val), next |-> k + 1]
                 ELSE JsonErr

JsonParseStrings(d) ==
    LET j == SkipWs(d, 1)
    IN  IF j > Len(d) \/ d[j] # 91 THEN JsonErr
        ELSE LET r == JsonElems(d, j + 1, <<>>, TRUE)
             IN  IF r.ok /\ SkipWs(d, r.next) > Len(d) THEN r ELSE JsonErr

\* ------------------------------------------------------------------------
\* decode_b64_json_patterns
\* A blob argument is the pair (pointer, len) of the C caller: null says the
\* pointer is null, data are the len bytes the pointer refers to.
\* ------------------------------------------------------------------------

Err(code) == [ok |-> FALSE, code |-> code, patterns |-> <<>>]

Ok(p) == [ok |-> TRUE, code |-> 0, patterns |-> p]

\* Faulty variant: the presence test of lines 35-37 is missing, so a null or
\* empty blob is taken through the decoding stages.
decode_without_presence_test(blob) ==
    IF ~Utf8Valid(blob.data) THEN Err(-2)
    ELSE LET decoded == Base64Decode(blob.data)
         IN  IF ~decoded.ok THEN Err(-2)
             ELSE LET patterns == JsonParseStrings(decoded.bytes)
                  IN  IF ~patterns.ok THEN Err(-3)
                      ELSE Ok(patterns.val)

decode_b64_json_patterns(blob) ==
    IF blob.null \/ blob.len = 0 THEN Err(-1)
    ELSE IF ~Utf8Valid(blob.data) THEN Err(-2)
    ELSE LET decoded == Base64Decode(blob.data)
         IN  IF ~decoded.ok THEN Err(-2)
             ELSE LET patterns == JsonParseStrings(decoded.bytes)
                  IN  IF ~patterns.ok THEN Err(-3)
                      ELSE Ok(patterns.val)

\* ------------------------------------------------------------------------
\* aho_corasick::AhoCorasick (external crate): new and is_match
\* A matcher is immutable and is the automaton of exactly one pattern list;
\* is_match scans the text left to right and stops at the first position
\* where some pattern starts (an empty pattern starts everywhere).
\* ------------------------------------------------------------------------

AhoCorasickNew(patterns) == [patterns |-> patterns]

PrefixAt(p, text, i) ==
    /\ i + Len(p) - 1 <= Len(text)
    /\ \A j \in 1..Len(p) : text[i + j - 1] = p[j]

RECURSIVE ScanFrom(_, _, _)
ScanFrom(ac, text, i) ==
    IF i > Len(text) + 1 THEN FALSE
    ELSE IF \E k \in 1..Len(ac.patterns) : PrefixAt(ac.patterns[k], text, i)
         THEN TRUE
         ELSE ScanFrom(ac, text, i + 1)

\* Faulty variant: a pattern is looked for at the start of the text only.
is_match_anchored(ac, text) ==
    \E k \in 1..Len(ac.patterns) : PrefixAt(ac.patterns[k], text, 1)

is_match(ac, text) == ScanFrom(ac, text, 1)

\* ------------------------------------------------------------------------
\* The control plane's encoding of a pattern list: base64(JSON array)
\* ------------------------------------------------------------------------

B64Char(v) ==
    IF v < 26 THEN v + 65
    ELSE IF v < 52 THEN v + 71
    ELSE IF v < 62 THEN v - 4
    ELSE IF v = 62 THEN 43
    ELSE 47

RECURSIVE Base64Encode(_)
Base64Encode(b) ==
    IF Len(b) = 0 THEN <<>>
    ELSE IF Len(b) = 1
         THEN <<B64Char(b[1] \div 4), B64Char((b[1] % 4) * 16), 61, 61>>
    ELSE IF Len(b) = 2
         THEN <<B64Char(b[1] \div 4),
                B64Char((b[1] % 4) * 16 + (b[2] \div 16)),
                B64Char((b[2] % 16) * 4), 61>>
    ELSE <<B64Char(b[1] \div 4),
           B64Char((b[1] % 4) * 16 + (b[2] \div 16)),
           B64Char((b[2] % 16) * 4 + (b[3] \div 64)),
           B64Char(b[3] % 64)>> \o Base64Encode(SubSeq(b, 4, Len(b)))

RECURSIVE JsonQuote(_)
JsonQuote(p) ==
    IF Len(p) = 0 THEN <<>>
    ELSE (IF p[1] \in {34, 92} THEN <<92, p[1]>> ELSE <<p[1]>>)
         \o JsonQuote(Tail(p))

RECURSIVE JsonItems(_)
JsonItems(P) ==
    IF Len(P) = 0 THEN <<>>
    ELSE <<34>> \o JsonQuote(P[1]) \o <<34>>
         \o (IF Len(P) > 1 THEN <<44>> ELSE <<>>) \o JsonItems(Tail(P))

JsonArray(P) == <<91>> \o JsonItems(P) \o <<93>>

Bytes(data) == [null |-> FALSE, len |-> Len(data), data |-> data]

encode(P) == Bytes(Base64Encode(JsonArray(P)))

\* ------------------------------------------------------------------------
\* Inputs of the model
\* ------------------------------------------------------------------------

Threads == {"t1", "t2"}

\* route ids are u32 keys; 0 is the legacy route, 1 stands for any other
Routes == {0, 1}

\* pattern lists: [], [""], ["ab"], ["b","b"]
PatEmpty == <<>>
PatBlank == << <<>> >>
PatAB == << <<97, 98>> >>
PatBB == << <<98>>, <<98>> >>

PatternSets == {PatEmpty, PatBlank, PatAB, PatBB}

NullBlob == [null |-> TRUE, len |-> 4, data |-> <<>>]

BadBlobs ==
    { NullBlob,
      Bytes(<<>>),                       \* non-null pointer, len = 0
      Bytes(<<255, 254, 253, 252>>),     \* not UTF-8 (nor base64)
      Bytes(<<87, 49, 48>>),             \* "W10"  : base64 without padding
      Bytes(<<101, 51, 48, 61>>),        \* "e30=" : {}
      Bytes(<<87, 122, 70, 100>>) }      \* "WzFd" : [1]

\* the blob of each pattern list
Encoding == [P \in PatternSets |-> encode(P)]

Blobs == {Encoding[P] : P \in PatternSets} \cup BadBlobs

\* a content argument is a C string pointer: null, or the bytes before the NUL
CStr(bytes) == [null |-> FALSE, bytes |-> bytes]

NullContent == [null |-> TRUE, bytes |-> <<>>]

\* "ab", "ba", "a" and the empty text
Texts == { <<97, 98>>, <<98, 97>>, <<97>>, <<>> }

Contents == {CStr(x) : x \in Texts} \cup {NullContent, CStr(<<97, 255, 98>>)}

\* ------------------------------------------------------------------------
\* State
\* ------------------------------------------------------------------------

VARIABLES
    engines,     \* ROUTE_ENGINES: route id -> matcher (a function on the keys present)
    counts,      \* ROUTE_PATTERN_COUNTS: route id -> pattern count
    engLock,     \* the RwLock around ROUTE_ENGINES
    cntLock,     \* the RwLock around ROUTE_PATTERN_COUNTS
    pc,          \* per thread: where it is in the call it executes ("idle": in none)
    route_id,    \* per thread: the route_id parameter of the running call
    patterns,    \* per thread: the decoded pattern list of a load
    ac,          \* per thread: the matcher built by a load / the Option resolved by a check
    text,        \* per thread: the validated text of a check
    ret,         \* Some(code) when the last step returned code to a caller, else None
    ncalls       \* number of calls made so far, by all threads

progVars == <<engines, counts, engLock, cntLock, pc, route_id, patterns, ac, text, ret, ncalls>>

\* HashMap operations
EmptyMap == << >>

MapInsert(m, k, v) == [x \in DOMAIN m \cup {k} |-> IF x = k THEN v ELSE m[x]]

MapRemove(m, k) == [x \in DOMAIN m \ {k} |-> m[x]]

\* Option: None is <<>>, Some(v) is <<v>>
None == << >>

Some(v) == <<v>>

MapGet(m, k) == IF k \in DOMAIN m THEN Some(m[k]) ELSE None

\* RwLock: at most one writer, or any number of readers
Unlocked == [writer |-> {}, readers |-> {}]

CanWrite(l) == l.writer = {} /\ l.readers = {}

CanRead(l) == l.writer = {}

\* a thread leaves a call: its locals go out of scope
Return(t, code) ==
    /\ ret' = Some(code)
    /\ pc' = [pc EXCEPT ![t] = "idle"]
    /\ route_id' = [route_id EXCEPT ![t] = 0]
    /\ patterns' = [patterns EXCEPT ![t] = <<>>]
    /\ ac' = [ac EXCEPT ![t] = None]
    /\ text' = [text EXCEPT ![t] = <<>>]

CanCall(t) == pc[t] = "idle" /\ ncalls < MaxCalls

Called(t) == ncalls' = ncalls + 1

\* ------------------------------------------------------------------------
\* engine_load_route_rules
\* ------------------------------------------------------------------------

\* Faulty variant: an empty pattern list is refused as malformed.
load_rejecting_empty(t, rid, blob, build) ==
    /\ CanCall(t)
    /\ Called(t)
    /\ LET d == decode_b64_json_patterns(blob)
       IN  IF ~d.ok THEN Return(t, d.code)
           ELSE IF d.patterns = <<>> THEN Return(t, -3)
           ELSE IF ~build THEN Return(t, -4)
           ELSE /\ pc' = [pc EXCEPT ![t] = "load_engines_write"]
                /\ route_id' = [route_id EXCEPT ![t] = rid]
                /\ patterns' = [patterns EXCEPT ![t] = d.patterns]
                /\ ac' = [ac EXCEPT ![t] = Some(AhoCorasickNew(d.patterns))]
                /\ UNCHANGED <<text>>
                /\ ret' = None
    /\ UNCHANGED <<engines, counts, engLock, cntLock>>

\* Faulty variant: the route's entry is dropped before the build's outcome is
\* looked at, so a load failing with -4 has already changed the registry.
load_dropping_entry_first(t, rid, blob, build) ==
    /\ CanCall(t)
    /\ Called(t)
    /\ LET d == decode_b64_json_patterns(blob)
       IN  IF ~d.ok
           THEN Return(t, d.code) /\ UNCHANGED <<engines, counts>>
           ELSE IF ~build
           THEN /\ Return(t, -4)
                /\ engines' = MapRemove(engines, rid)
                /\ counts' = MapRemove(counts, rid)
           ELSE /\ pc' = [pc EXCEPT ![t] = "load_engines_write"]
                /\ route_id' = [route_id EXCEPT ![t] = rid]
                /\ patterns' = [patterns EXCEPT ![t] = d.patterns]
                /\ ac' = [ac EXCEPT ![t] = Some(AhoCorasickNew(d.patterns))]
                /\ UNCHANGED <<text, engines, counts>>
                /\ ret' = None
    /\ UNCHANGED <<engLock, cntLock>>

\* lines 76-85: decode and build; build is the outcome of AhoCorasick::new
engine_load_route_rules(t, rid, blob, build) ==
    /\ CanCall(t)
    /\ Called(t)
    /\ LET d == decode_b64_json_patterns(blob)
       IN  IF ~d.ok THEN Return(t, d.code)
           ELSE IF ~build THEN Return(t, -4)
           ELSE /\ pc' = [pc EXCEPT ![t] = "load_engines_write"]
                /\ route_id' = [route_id EXCEPT ![t] = rid]
                /\ patterns' = [patterns EXCEPT ![t] = d.patterns]
                /\ ac' = [ac EXCEPT ![t] = Some(AhoCorasickNew(d.patterns))]
                /\ UNCHANGED <<text>>
                /\ ret' = None
    /\ UNCHANGED <<engines, counts, engLock, cntLock>>

\* line 88: ROUTE_ENGINES.write()
LoadLockEngines(t) ==
    /\ pc[t] = "load_engines_write"
    /\ CanWrite(engLock)
    /\ engLock' = [engLock EXCEPT !.writer = {t}]
    /\ pc' = [pc EXCEPT ![t] = "load_engines_insert"]
    /\ UNCHANGED <<engines, counts, cntLock, route_id, patterns, ac, text, ncalls>>
    /\ ret' = None

\* Faulty variant: the write guard of ROUTE_ENGINES is never dropped.
LoadInsertEnginesLeakingGuard(t) ==
    /\ pc[t] = "load_engines_insert"
    /\ engines' = MapInsert(engines, route_id[t], ac[t][1])
    /\ pc' = [pc EXCEPT ![t] = "load_counts_write"]
    /\ UNCHANGED <<counts, engLock, cntLock, route_id, patterns, ac, text, ncalls>>
    /\ ret' = None

\* lines 89-90: insert, guard dropped
LoadInsertEngines(t) ==
    /\ pc[t] = "load_engines_insert"
    /\ engines' = MapInsert(engines, route_id[t], ac[t][1])
    /\ engLock' = Unlocked
    /\ pc' = [pc EXCEPT ![t] = "load_counts_write"]
    /\ UNCHANGED <<counts, cntLock, route_id, patterns, ac, text, ncalls>>
    /\ ret' = None

\* line 93: ROUTE_PATTERN_COUNTS.write()
LoadLockCounts(t) ==
    /\ pc[t] = "load_counts_write"
    /\ CanWrite(cntLock)
    /\ cntLock' = [cntLock EXCEPT !.writer = {t}]
    /\ pc' = [pc EXCEPT ![t] = "load_counts_insert"]
    /\ UNCHANGED <<engines, counts, engLock, route_id, patterns, ac, text, ncalls>>
    /\ ret' = None

\* Faulty variant: the count recorded is the number of distinct patterns.
LoadInsertCountsDistinct(t) ==
    /\ pc[t] = "load_counts_insert"
    /\ counts' = MapInsert(counts, route_id[t],
                           Cardinality({patterns[t][k] : k \in 1..Len(patterns[t])}))
    /\ cntLock' = Unlocked
    /\ Return(t, 0)
    /\ UNCHANGED <<engines, engLock, ncalls>>

\* lines 94-97: insert, guard dropped, return 0
LoadInsertCounts(t) ==
    /\ pc[t] = "load_counts_insert"
    /\ counts' = MapInsert(counts, route_id[t], Len(patterns[t]))
    /\ cntLock' = Unlocked
    /\ Return(t, 0)
    /\ UNCHANGED <<engines, engLock, ncalls>>

\* ------------------------------------------------------------------------
\* engine_clear_route_rules
\* ------------------------------------------------------------------------

engine_clear_route_rules(t, rid) ==
    /\ CanCall(t)
    /\ Called(t)
    /\ pc' = [pc EXCEPT ![t] = "clear_engines_write"]
    /\ route_id' = [route_id EXCEPT ![t] = rid]
    /\ UNCHANGED <<engines, counts, engLock, cntLock, patterns, ac, text>>
    /\ ret' = None

ClearLockEngines(t) ==
    /\ pc[t] = "clear_engines_write"
    /\ CanWrite(engLock)
    /\ engLock' = [engLock EXCEPT !.writer = {t}]
    /\ pc' = [pc EXCEPT ![t] = "clear_engines_remove"]
    /\ UNCHANGED <<engines, counts, cntLock, route_id, patterns, ac, text, ncalls>>
    /\ ret' = None

\* Faulty variant: the clear of one route empties ROUTE_ENGINES.
ClearRemoveEnginesAll(t) ==
    /\ pc[t] = "clear_engines_remove"
    /\ engines' = EmptyMap
    /\ engLock' = Unlocked
    /\ pc' = [pc EXCEPT ![t] = "clear_counts_write"]
    /\ UNCHANGED <<counts, cntLock, route_id, patterns, ac, text, ncalls>>
    /\ ret' = None

\* Faulty variant: the matcher of the route is left in ROUTE_ENGINES.
ClearKeepingMatcher(t) ==
    /\ pc[t] = "clear_engines_remove"
    /\ engines' = engines
    /\ engLock' = Unlocked
    /\ pc' = [pc EXCEPT ![t] = "clear_counts_write"]
    /\ UNCHANGED <<counts, cntLock, route_id, patterns, ac, text, ncalls>>
    /\ ret' = None

ClearRemoveEngines(t) ==
    /\ pc[t] = "clear_engines_remove"
    /\ engines' = MapRemove(engines, route_id[t])
    /\ engLock' = Unlocked
    /\ pc' = [pc EXCEPT ![t] = "clear_counts_write"]
    /\ UNCHANGED <<counts, cntLock, route_id, patterns, ac, text, ncalls>>
    /\ ret' = None

ClearLockCounts(t) ==
    /\ pc[t] = "clear_counts_write"
    /\ CanWrite(cntLock)
    /\ cntLock' = [cntLock EXCEPT !.writer = {t}]
    /\ pc' = [pc EXCEPT ![t] = "clear_counts_remove"]
    /\ UNCHANGED <<engines, counts, engLock, route_id, patterns, ac, text, ncalls>>
    /\ ret' = None

\* Faulty variant: removing a count that is not there is reported as an error.
ClearRemoveCountsStrict(t) ==
    /\ pc[t] = "clear_counts_remove"
    /\ counts' = MapRemove(counts, route_id[t])
    /\ cntLock' = Unlocked
    /\ Return(t, IF route_id[t] \in DOMAIN counts THEN 0 ELSE -1)
    /\ UNCHANGED <<engines, engLock, ncalls>>

ClearRemoveCounts(t) ==
    /\ pc[t] = "clear_counts_remove"
    /\ counts' = MapRemove(counts, route_id[t])
    /\ cntLock' = Unlocked
    /\ Return(t, 0)
    /\ UNCHANGED <<engines, engLock, ncalls>>

\* ------------------------------------------------------------------------
\* engine_clear_all_rules
\* ------------------------------------------------------------------------

engine_clear_all_rules(t) ==
    /\ CanCall(t)
    /\ Called(t)
    /\ pc' = [pc EXCEPT ![t] = "clearall_engines_write"]
    /\ UNCHANGED <<engines, counts, engLock, cntLock, route_id, patterns, ac, text>>
    /\ ret' = None

ClearAllLockEngines(t) ==
    /\ pc[t] = "clearall_engines_write"
    /\ CanWrite(engLock)
    /\ engLock' = [engLock EXCEPT !.writer = {t}]
    /\ pc' = [pc EXCEPT ![t] = "clearall_engines_clear"]
    /\ UNCHANGED <<engines, counts, cntLock, route_id, patterns, ac, text, ncalls>>
    /\ ret' = None

ClearAllEngines(t) ==
    /\ pc[t] = "clearall_engines_clear"
    /\ engines' = EmptyMap
    /\ engLock' = Unlocked
    /\ pc' = [pc EXCEPT ![t] = "clearall_counts_write"]
    /\ UNCHANGED <<counts, cntLock, route_id, patterns, ac, text, ncalls>>
    /\ ret' = None

ClearAllLockCounts(t) ==
    /\ pc[t] = "clearall_counts_write"
    /\ CanWrite(cntLock)
    /\ cntLock' = [cntLock EXCEPT !.writer = {t}]
    /\ pc' = [pc EXCEPT ![t] = "clearall_counts_clear"]
    /\ UNCHANGED <<engines, counts, engLock, route_id, patterns, ac, text, ncalls>>
    /\ ret' = None

ClearAllCounts(t) ==
    /\ pc[t] = "clearall_counts_clear"
    /\ counts' = EmptyMap
    /\ cntLock' = Unlocked
    /\ Return(t, 0)
    /\ UNCHANGED <<engines, engLock, ncalls>>

\* ------------------------------------------------------------------------
\* engine_check_response_for_route
\* ------------------------------------------------------------------------

\* Faulty variant: the bytes of the C string are scanned without the UTF-8 test.
check_without_validation(t, rid, content) ==
    /\ CanCall(t)
    /\ Called(t)
    /\ IF content.null THEN Return(t, 0)
       ELSE /\ pc' = [pc EXCEPT ![t] = "check_engines_read"]
            /\ route_id' = [route_id EXCEPT ![t] = rid]
            /\ text' = [text EXCEPT ![t] = content.bytes]
            /\ UNCHANGED <<patterns, ac>>
            /\ ret' = None
    /\ UNCHANGED <<engines, counts, engLock, cntLock>>

\* lines 146-155: null check and CStr::to_str
engine_check_response_for_route(t, rid, content) ==
    /\ CanCall(t)
    /\ Called(t)
    /\ IF content.null THEN Return(t, 0)
       ELSE IF ~Utf8Valid(content.bytes) THEN Return(t, 0)
       ELSE /\ pc' = [pc EXCEPT ![t] = "check_engines_read"]
            /\ route_id' = [route_id EXCEPT ![t] = rid]
            /\ text' = [text EXCEPT ![t] = content.bytes]
            /\ UNCHANGED <<patterns, ac>>
            /\ ret' = None
    /\ UNCHANGED <<engines, counts, engLock, cntLock>>

\* line 159: ROUTE_ENGINES.read()
CheckLockEngines(t) ==
    /\ pc[t] = "check_engines_read"
    /\ CanRead(engLock)
    /\ engLock' = [engLock EXCEPT !.readers = @ \cup {t}]
    /\ pc' = [pc EXCEPT ![t] = "check_engines_get"]
    /\ UNCHANGED <<engines, counts, cntLock, route_id, patterns, ac, text, ncalls>>
    /\ ret' = None

\* Faulty variant: the matcher is taken out of the map, not cloned.
CheckGetTaking(t) ==
    /\ pc[t] = "check_engines_get"
    /\ engLock' = [engLock EXCEPT !.readers = @ \ {t}]
    /\ engines' = MapRemove(engines, route_id[t])
    /\ LET ac_opt == MapGet(engines, route_id[t])
       IN  IF ac_opt = None THEN Return(t, 0)
           ELSE /\ ac' = [ac EXCEPT ![t] = ac_opt]
                /\ pc' = [pc EXCEPT ![t] = "check_scan"]
                /\ UNCHANGED <<route_id, patterns, text>>
                /\ ret' = None
    /\ UNCHANGED <<counts, cntLock, ncalls>>

\* Faulty variant: the read guard lives as long as the matcher handle.
CheckGetHoldingGuard(t) ==
    /\ pc[t] = "check_engines_get"
    /\ LET ac_opt == MapGet(engines, route_id[t])
       IN  IF ac_opt = None
           THEN /\ Return(t, 0)
                /\ engLock' = [engLock EXCEPT !.readers = @ \ {t}]
           ELSE /\ ac' = [ac EXCEPT ![t] = ac_opt]
                /\ pc' = [pc EXCEPT ![t] = "check_scan"]
                /\ UNCHANGED <<route_id, patterns, text, engLock>>
                /\ ret' = None
    /\ UNCHANGED <<engines, counts, cntLock, ncalls>>

\* Faulty variant: the key looked up is off by one.
CheckGetNeighbour(t) ==
    /\ pc[t] = "check_engines_get"
    /\ engLock' = [engLock EXCEPT !.readers = @ \ {t}]
    /\ LET ac_opt == MapGet(engines, (route_id[t] + 1) % 2)
       IN  IF ac_opt = None THEN Return(t, 0)
           ELSE /\ ac' = [ac EXCEPT ![t] = ac_opt]
                /\ pc' = [pc EXCEPT ![t] = "check_scan"]
                /\ UNCHANGED <<route_id, patterns, text>>
                /\ ret' = None
    /\ UNCHANGED <<engines, counts, cntLock, ncalls>>

\* Faulty variant: the matcher is looked up under the legacy key 0, whatever
\* the route id of the call.
CheckGetKeyZero(t) ==
    /\ pc[t] = "check_engines_get"
    /\ engLock' = [engLock EXCEPT !.readers = @ \ {t}]
    /\ LET ac_opt == MapGet(engines, 0)
       IN  IF ac_opt = None THEN Return(t, 0)
           ELSE /\ ac' = [ac EXCEPT ![t] = ac_opt]
                /\ pc' = [pc EXCEPT ![t] = "check_scan"]
                /\ UNCHANGED <<route_id, patterns, text>>
                /\ ret' = None
    /\ UNCHANGED <<engines, counts, cntLock, ncalls>>

\* Faulty variant: a route without a matcher falls back to the matcher of the
\* legacy route 0.
CheckGetWithFallback(t) ==
    /\ pc[t] = "check_engines_get"
    /\ engLock' = [engLock EXCEPT !.readers = @ \ {t}]
    /\ LET own == MapGet(engines, route_id[t])
           ac_opt == IF own = None THEN MapGet(engines, 0) ELSE own
       IN  IF ac_opt = None THEN Return(t, 0)
           ELSE /\ ac' = [ac EXCEPT ![t] = ac_opt]
                /\ pc' = [pc EXCEPT ![t] = "check_scan"]
                /\ UNCHANGED <<route_id, patterns, text>>
                /\ ret' = None
    /\ UNCHANGED <<engines, counts, cntLock, ncalls>>

\* lines 160-166: clone the Arc, drop the guard, return 0 on None
CheckGet(t) ==
    /\ pc[t] = "check_engines_get"
    /\ engLock' = [engLock EXCEPT !.readers = @ \ {t}]
    /\ LET ac_opt == MapGet(engines, route_id[t])
       IN  IF ac_opt = None THEN Return(t, 0)
           ELSE /\ ac' = [ac EXCEPT ![t] = ac_opt]
                /\ pc' = [pc EXCEPT ![t] = "check_scan"]
                /\ UNCHANGED <<route_id, patterns, text>>
                /\ ret' = None
    /\ UNCHANGED <<engines, counts, cntLock, ncalls>>

\* Faulty variant: the scan goes back to the map for the matcher, so that a
\* route cleared or reloaded meanwhile changes what is scanned with.
CheckScanRereading(t) ==
    /\ pc[t] = "check_scan"
    /\ LET now == MapGet(engines, route_id[t])
       IN  Return(t, IF now # None /\ is_match(now[1], text[t]) THEN 1 ELSE 0)
    /\ UNCHANGED <<engines, counts, engLock, cntLock, ncalls>>

\* lines 168-172: the scan, no lock held
CheckScan(t) ==
    /\ pc[t] = "check_scan"
    /\ Return(t, IF is_match(ac[t][1], text[t]) THEN 1 ELSE 0)
    /\ UNCHANGED <<engines, counts, engLock, cntLock, ncalls>>

\* ------------------------------------------------------------------------
\* Legacy API: route_id = 0
\* ------------------------------------------------------------------------

\* Faulty variant: the legacy load has a route of its own.
load_rules_own_route(t, blob, build) == engine_load_route_rules(t, 1, blob, build)

engine_load_rules(t, blob, build) == engine_load_route_rules(t, 0, blob, build)

engine_check_response(t, content) == engine_check_response_for_route(t, 0, content)

\* ------------------------------------------------------------------------
\* History variables: what a caller can know about the calls made so far.
\* They are written only by ObserveCall and ObserveStep and never read by the program's actions.
\* ------------------------------------------------------------------------

VARIABLES
    call,        \* per thread: the call it is in (function and arguments)
    overlap,     \* per thread: routes on which its running write overlapped another write
    status,      \* per route: what the completed, non-overlapping writes say about it
    chk,         \* per thread: what held of the route of its check since the call began
    dirty,       \* per thread: whether its running call has changed a map
    lastDone,    \* per route: entries left by the writes no later write follows
    race,        \* the load that ran concurrently with a clear-all, if that is all that ran
    done,        \* the call the last step returned from, with what was observed of it
    shadow,      \* SeqSpec: the registry and return value of the route-aware counterparts
    before       \* SeqSpec: the two maps as they were when the latest call was made

histVars == <<call, overlap, status, chk, dirty, lastDone, race, done, shadow, before>>

vars == <<progVars, histVars>>

\* a call: the function, its arguments (rid is 0 where the function takes no
\* route id; build is the outcome AhoCorasick::new will have) and, for a load
\* of the encoding of a pattern list, that list
CallOf(fn, rid, blob, content, build, p) ==
    [fn |-> fn, rid |-> rid, blob |-> blob, content |-> content, build |-> build, p |-> p]

NoCall == CallOf("none", 0, <<>>, <<>>, TRUE, <<>>)

LoadFns == {"engine_load_route_rules", "engine_load_rules"}

CheckFns == {"engine_check_response_for_route", "engine_check_response"}

WriteFns == LoadFns \cup {"engine_clear_route_rules", "engine_clear_all_rules"}

\* the pattern list a caller encoded into a blob
Intended(blob) ==
    IF \E P \in PatternSets : Encoding[P] = blob
    THEN CHOOSE P \in PatternSets : Encoding[P] = blob
    ELSE <<>>

\* the routes a write call is about
Touched(c) == IF c.fn = "engine_clear_all_rules" THEN Routes ELSE {c.rid}

\* the Route Entry a write call is meant to leave on a route it touches
Entry(m, n) == [matcher |-> m, count |-> n]

Absent == Entry(None, None)

Loaded(P) == Entry(Some(AhoCorasickNew(P)), Some(Len(P)))

Effect(c) == IF c.fn \in LoadFns THEN Loaded(c.p) ELSE Absent

EntryOf(r) == Entry(MapGet(engines, r), MapGet(counts, r))

InWrite(t) == pc[t] # "idle" /\ call[t].fn \in WriteFns

InCheck(t) == pc[t] # "idle" /\ call[t].fn \in CheckFns

\* status of a route: k says what the last write on it was when that write
\* overlapped no other write on the route ("unknown" otherwise); p is the
\* pattern list loaded (k = "loaded") or the one that was cleared, fn the
\* function that wrote
StatusOf(k, p, fn) == [k |-> k, p |-> p, fn |-> fn]

Unknown == StatusOf("unknown", None, "none")

Never == StatusOf("never", None, "none")

\* a write call begins on a route whose status is st
StatusBegin(st, c) ==
    IF c.fn \in LoadFns THEN Unknown
    ELSE IF st.k \in {"never", "cleared", "clearing"} THEN st
    ELSE IF st.k = "loaded" THEN StatusOf("clearing", Some(st.p), c.fn)
    ELSE Unknown

\* a write call that overlapped no other write returns
StatusEnd(st, c) ==
    IF c.fn \in LoadFns THEN StatusOf("loaded", c.p, c.fn)
    ELSE IF st.k = "clearing" THEN StatusOf("cleared", st.p, st.fn)
    ELSE IF st.k = "never" THEN StatusOf("cleared", None, c.fn)
    ELSE st

NoChk == [st |-> Unknown, cands |-> {}]

NoneDone == [by |-> "none", call |-> NoCall, ret |-> 0, chk |-> NoChk, dirty |-> FALSE]

\* the route-aware operations run one after another, each to completion:
\* the registry and the return value they leave
Registry(e, c, r) == [engines |-> e, counts |-> c, ret |-> r]

SeqLoad(reg, rid, blob, build) ==
    LET d == decode_b64_json_patterns(blob)
    IN  IF ~d.ok THEN [reg EXCEPT !.ret = d.code]
        ELSE IF ~build THEN [reg EXCEPT !.ret = -4]
        ELSE Registry(MapInsert(reg.engines, rid, AhoCorasickNew(d.patterns)),
                      MapInsert(reg.counts, rid, Len(d.patterns)), 0)

SeqClear(reg, rid) ==
    Registry(MapRemove(reg.engines, rid), MapRemove(reg.counts, rid), 0)

SeqClearAll(reg) == Registry(EmptyMap, EmptyMap, 0)

SeqCheck(reg, rid, content) ==
    [reg EXCEPT !.ret =
        IF content.null \/ ~Utf8Valid(content.bytes) THEN 0
        ELSE IF rid \notin DOMAIN reg.engines THEN 0
        ELSE IF is_match(reg.engines[rid], content.bytes) THEN 1 ELSE 0]

\* the call c with every legacy call replaced by its counterpart on route 0
Counterpart(reg, c) ==
    CASE c.fn = "engine_load_route_rules" -> SeqLoad(reg, c.rid, c.blob, c.build)
      [] c.fn = "engine_load_rules" -> SeqLoad(reg, 0, c.blob, c.build)
      [] c.fn = "engine_clear_route_rules" -> SeqClear(reg, c.rid)
      [] c.fn = "engine_clear_all_rules" -> SeqClearAll(reg)
      [] c.fn = "engine_check_response_for_route" -> SeqCheck(reg, c.rid, c.content)
      [] c.fn = "engine_check_response" -> SeqCheck(reg, 0, c.content)

\* the two maps as they are
Snapshot == [engines |-> engines, counts |-> counts]

\* what is seen of route r when a check on it is called / after a later step
ChkBegin(r) == [st |-> status[r], cands |-> {MapGet(engines, r)}]

ChkNext(u) ==
    IF InCheck(u)
    THEN [st |-> IF status'[call[u].rid] = status[call[u].rid]
                 THEN chk[u].st ELSE Unknown,
          cands |-> chk[u].cands \cup {MapGet(engines', call[u].rid)}]
    ELSE chk[u]

MapsChanged == engines' # engines \/ counts' # counts

Returned(t, c, seen, changed) ==
    [by |-> t, call |-> c, ret |-> ret'[1], chk |-> seen, dirty |-> changed]

\* thread t has made the call c (and has returned from it already, or not)
ObserveCall(t, c) ==
    LET returned == pc'[t] = "idle"
        begins == ~returned /\ c.fn \in WriteFns
        T == Touched(c)
        others == {u \in Threads \ {t} : InWrite(u)}
        met(u) == T \cap Touched(call[u])
        seen == IF c.fn \in CheckFns THEN ChkBegin(c.rid) ELSE NoChk
    IN  /\ call' = [call EXCEPT ![t] = IF returned THEN NoCall ELSE c]
        /\ overlap' =
             [u \in Threads |->
                IF ~begins THEN overlap[u]
                ELSE IF u = t THEN UNION {met(v) : v \in others}
                ELSE IF u \in others THEN overlap[u] \cup met(u)
                ELSE overlap[u]]
        /\ status' =
             [r \in Routes |->
                IF begins /\ r \in T THEN StatusBegin(status[r], c) ELSE status[r]]
        /\ chk' =
             [u \in Threads |->
                IF u = t THEN (IF returned THEN NoChk ELSE seen) ELSE ChkNext(u)]
        /\ dirty' = [dirty EXCEPT ![t] = ~returned /\ MapsChanged]
        /\ lastDone' =
             [r \in Routes |-> IF begins /\ r \in T THEN {} ELSE lastDone[r]]
        /\ race' =
             IF ~begins THEN race
             ELSE IF /\ Cardinality(others) = 1
                     /\ \A u \in others :
                          /\ overlap[u] = {}
                          /\ {c.fn, call[u].fn} \in
                               {{"engine_clear_all_rules", f} : f \in LoadFns}
                  THEN LET l == IF c.fn \in LoadFns THEN c
                                ELSE call[CHOOSE u \in others : TRUE]
                       IN  Some([rid |-> l.rid, p |-> l.p])
                  ELSE None
        /\ done' = IF returned THEN Returned(t, c, seen, MapsChanged) ELSE NoneDone
        /\ shadow' = IF shadow # None THEN Some(Counterpart(shadow[1], c)) ELSE shadow
        /\ before' = IF before # None THEN Some(Snapshot) ELSE before

\* thread t has taken a step inside the call it is in
ObserveStep(t) ==
    LET c == call[t]
        returned == pc'[t] = "idle"
        ends == returned /\ c.fn \in WriteFns
        T == Touched(c)
        changed == dirty[t] \/ MapsChanged
    IN  /\ call' = [call EXCEPT ![t] = IF returned THEN NoCall ELSE c]
        /\ overlap' = [overlap EXCEPT ![t] = IF returned THEN {} ELSE @]
        /\ status' =
             [r \in Routes |->
                IF ends /\ r \in T
                THEN IF r \in overlap[t] THEN Unknown ELSE StatusEnd(status[r], c)
                ELSE status[r]]
        /\ chk' =
             [u \in Threads |-> IF u = t /\ returned THEN NoChk ELSE ChkNext(u)]
        /\ dirty' = [dirty EXCEPT ![t] = ~returned /\ changed]
        /\ lastDone' =
             [r \in Routes |->
                IF ends /\ r \in T THEN lastDone[r] \cup {Effect(c)} ELSE lastDone[r]]
        /\ race' = race
        /\ done' = IF returned THEN Returned(t, c, ChkNext(t), changed) ELSE NoneDone
        /\ shadow' = shadow
        /\ before' = before

\* ------------------------------------------------------------------------
\* Specifications
\* ------------------------------------------------------------------------

InitWith(sh) ==
    /\ engines = EmptyMap
    /\ counts = EmptyMap
    /\ engLock = Unlocked
    /\ cntLock = Unlocked
    /\ pc = [t \in Threads |-> "idle"]
    /\ route_id = [t \in Threads |-> 0]
    /\ patterns = [t \in Threads |-> <<>>]
    /\ ac = [t \in Threads |-> None]
    /\ text = [t \in Threads |-> <<>>]
    /\ ret = None
    /\ ncalls = 0
    /\ call = [t \in Threads |-> NoCall]
    /\ overlap = [t \in Threads |-> {}]
    /\ status = [r \in Routes |-> Never]
    /\ chk = [t \in Threads |-> NoChk]
    /\ dirty = [t \in Threads |-> FALSE]
    /\ lastDone = [r \in Routes |-> {Absent}]
    /\ race = None
    /\ done = NoneDone
    /\ shadow = sh
    /\ before = IF sh = None THEN None ELSE Some(Snapshot)

Init == InitWith(None)

SeqInit == InitWith(Some(Registry(EmptyMap, EmptyMap, 0)))

\* the calls, with the sets their arguments are drawn from
CallLoadRoute(t, B, O) ==
    \E rid \in Routes, blob \in B, build \in O :
        /\ engine_load_route_rules(t, rid, blob, build)
        /\ ObserveCall(t, CallOf("engine_load_route_rules", rid, blob, <<>>, build,
                                 Intended(blob)))

CallLoadLegacy(t, B, O) ==
    \E blob \in B, build \in O :
        /\ engine_load_rules(t, blob, build)
        /\ ObserveCall(t, CallOf("engine_load_rules", 0, blob, <<>>, build,
                                 Intended(blob)))

CallClearRoute(t) ==
    \E rid \in Routes :
        /\ engine_clear_route_rules(t, rid)
        /\ ObserveCall(t, CallOf("engine_clear_route_rules", rid, <<>>, <<>>, TRUE, <<>>))

CallClearAll(t) ==
    /\ engine_clear_all_rules(t)
    /\ ObserveCall(t, CallOf("engine_clear_all_rules", 0, <<>>, <<>>, TRUE, <<>>))

CallCheckRoute(t, C) ==
    \E rid \in Routes, content \in C :
        /\ engine_check_response_for_route(t, rid, content)
        /\ ObserveCall(t, CallOf("engine_check_response_for_route", rid, <<>>, content,
                                 TRUE, <<>>))

CallCheckLegacy(t, C) ==
    \E content \in C :
        /\ engine_check_response(t, content)
        /\ ObserveCall(t, CallOf("engine_check_response", 0, <<>>, content, TRUE, <<>>))

\* the steps inside a call; each is observed as a step of the call it belongs to
Step(t) ==
    \/ LoadLockEngines(t) /\ ObserveStep(t)
    \/ LoadInsertEngines(t) /\ ObserveStep(t)
    \/ LoadLockCounts(t) /\ ObserveStep(t)
    \/ LoadInsertCounts(t) /\ ObserveStep(t)
    \/ ClearLockEngines(t) /\ ObserveStep(t)
    \/ ClearRemoveEngines(t) /\ ObserveStep(t)
    \/ ClearLockCounts(t) /\ ObserveStep(t)
    \/ ClearRemoveCounts(t) /\ ObserveStep(t)
    \/ ClearAllLockEngines(t) /\ ObserveStep(t)
    \/ ClearAllEngines(t) /\ ObserveStep(t)
    \/ ClearAllLockCounts(t) /\ ObserveStep(t)
    \/ ClearAllCounts(t) /\ ObserveStep(t)
    \/ CheckLockEngines(t) /\ ObserveStep(t)
    \/ CheckGet(t) /\ ObserveStep(t)
    \/ CheckScan(t) /\ ObserveStep(t)

\* Spec: the threads run concurrently, on well-formed arguments
ConcBlobs == {Encoding[PatAB], Encoding[PatBB]}

ConcContents == {CStr(<<97, 98>>), CStr(<<98, 97>>)}

Next ==
    \E t \in Threads :
        \/ CallLoadRoute(t, ConcBlobs, {TRUE})
        \/ CallClearRoute(t)
        \/ CallClearAll(t)
        \/ CallCheckRoute(t, ConcContents)
        \/ Step(t)

Spec == Init /\ [][Next]_vars

\* SeqSpec: one caller, every call runs to completion, on every argument
SeqNext ==
    \E t \in {"t1"} :
        \/ CallLoadRoute(t, Blobs, BOOLEAN)
        \/ CallLoadLegacy(t, Blobs, BOOLEAN)
        \/ CallClearRoute(t)
        \/ CallClearAll(t)
        \/ CallCheckRoute(t, Contents)
        \/ CallCheckLegacy(t, Contents)
        \/ Step(t)

SeqSpec == SeqInit /\ [][SeqNext]_vars

\* Fair scheduling: a thread that can take the next step of its call does not
\* wait for ever. A call is a new request of a caller and is under no fairness.
\* Which locks a call takes does not depend on the patterns or on the text:
\* one blob and one text are enough here.
FairNext ==
    \E t \in Threads :
        \/ CallLoadRoute(t, {Encoding[PatAB]}, {TRUE})
        \/ CallClearRoute(t)
        \/ CallClearAll(t)
        \/ CallCheckRoute(t, {CStr(<<97, 98>>)})
        \/ Step(t)

FairSpec == Init /\ [][FairNext]_vars /\ \A t \in Threads : WF_vars(Step(t))

\* ------------------------------------------------------------------------
\* Properties
\* ------------------------------------------------------------------------

\* p occurs in t as a contiguous substring
Occurs(p, t) ==
    \E i \in 1..(Len(t) - Len(p) + 1) : SubSeq(t, i, i + Len(p) - 1) = p

AnyOccurs(P, t) == \E k \in 1..Len(P) : Occurs(P[k], t)

ValidText(content) == ~content.null /\ Utf8Valid(content.bytes)

DoneCheck == done.call.fn \in CheckFns

DoneLoad == done.call.fn \in LoadFns

NoWriteOn(r) == \A t \in Threads : ~(InWrite(t) /\ r \in Touched(call[t]))

\* C1: a check of a valid text on a route whose last write is a load of
\* encode(P) that returned 0, with no write to the route overlapping or
\* following that load up to the return of the check, returns 1 if some
\* string of P occurs in the text as a contiguous substring and 0 otherwise.
C1_CheckMatchesLoadedPatterns ==
    (DoneCheck /\ ValidText(done.call.content) /\ done.chk.st.k = "loaded")
        => done.ret = IF AnyOccurs(done.chk.st.p, done.call.content.bytes)
                      THEN 1 ELSE 0

\* a check on route 1 returned 1 for "ba" against the loaded list ["b","b"]
C1_Witness ==
    /\ DoneCheck
    /\ done.call.rid = 1
    /\ done.call.content = CStr(<<98, 97>>)
    /\ done.chk.st.k = "loaded"
    /\ done.chk.st.p = PatBB
    /\ done.ret = 1

\* C2: a load that returns -1, -2, -3 or -4 has changed neither map: no step
\* of the call altered the matcher binding or the pattern count of any route.
C2_FailedLoadCommitsNothing ==
    (DoneLoad /\ done.ret < 0) => ~done.dirty

\* a load on a route that is Active failed with -3 and the route kept its matcher
C2_Witness ==
    /\ DoneLoad
    /\ done.ret = -3
    /\ done.call.rid \in DOMAIN engines
    /\ engines[done.call.rid] = AhoCorasickNew(PatAB)
    /\ counts = (done.call.rid :> 1)

\* the result of evaluating a binding of a route (a matcher or none) on a text
ResultOf(binding, t) ==
    IF binding = None THEN 0
    ELSE IF AnyOccurs(binding[1].patterns, t) THEN 1 ELSE 0

\* C3: the result of a check of a valid text equals the result of one of the
\* bindings the route had between the call and the return of the check: with
\* a load replacing P_old by P_new meanwhile, the result of P_old or of P_new.
C3_ReloadAtomicForReaders ==
    (DoneCheck /\ ValidText(done.call.content))
        => \E b \in done.chk.cands :
              done.ret = ResultOf(b, done.call.content.bytes)

\* a check of "ab" ran while ["ab"] was replaced by ["b","b"] and returned 1
C3_Witness ==
    /\ DoneCheck
    /\ done.call.content = CStr(<<97, 98>>)
    /\ done.chk.cands = {Some(AhoCorasickNew(PatAB)), Some(AhoCorasickNew(PatBB))}
    /\ done.ret = 1

\* C4 (as claimed): in every reachable state a route has a matcher iff it has
\* a pattern count, and the count is the number of patterns of the matcher.
C4_NoTornEntry ==
    \A r \in Routes :
        /\ r \in DOMAIN engines <=> r \in DOMAIN counts
        /\ r \in DOMAIN engines => counts[r] = Len(engines[r].patterns)

\* C5 (as claimed): once no write on route r is running, the entry of r is the
\* entry left by some write on r that no other write on r follows in real
\* time (the last call of some sequential order of the writes).
C5_WritesLinearizable ==
    \A r \in Routes : NoWriteOn(r) => EntryOf(r) \in lastDone[r]

\* C6 (as claimed): after a clear-all and a load on route r that ran
\* concurrently have both returned, the registry is empty or holds exactly the
\* entry of that load on r.
C6_ClearAllAtomic ==
    (race # None /\ \A t \in Threads : ~InWrite(t))
        => \/ engines = EmptyMap /\ counts = EmptyMap
           \/ /\ engines = (race[1].rid :> AhoCorasickNew(race[1].p))
              /\ counts = (race[1].rid :> Len(race[1].p))

\* C7: a check on a route whose last write is a clear (of the route or of all
\* routes) that had returned when the check was called, with no load on the
\* route up to the return of the check, returns 0.
C7_CheckAfterClear ==
    (DoneCheck /\ done.chk.st.k = "cleared") => done.ret = 0

\* route 1 held ["ab"], was cleared, and a check of "ab" on it returned 0
C7_Witness ==
    /\ DoneCheck
    /\ done.call.rid = 1
    /\ done.call.content = CStr(<<97, 98>>)
    /\ done.chk.st.k = "cleared"
    /\ done.chk.st.p = Some(PatAB)
    /\ done.ret = 0

\* C8: every check returns 0 or 1, and a check on a route that has no matcher
\* from the call to the return of the check returns 0.
C8_AbsentRouteNoMatch ==
    DoneCheck => /\ done.ret \in {0, 1}
                 /\ done.chk.cands = {None} => done.ret = 0

\* a check of "ab" on the absent route 1 returned 0 while route 0 holds ["ab"]
C8_Witness ==
    /\ DoneCheck
    /\ done.call.rid = 1
    /\ done.call.content = CStr(<<97, 98>>)
    /\ done.chk.cands = {None}
    /\ 0 \in DOMAIN engines
    /\ engines[0] = AhoCorasickNew(PatAB)
    /\ done.ret = 0

\* C9: with one caller, after every call the registry and the value returned
\* are those of the same sequence of calls with each legacy call replaced by
\* the route-aware call on route 0.
C9_LegacyIsRouteZero ==
    (shadow # None /\ \A t \in Threads : pc[t] = "idle")
        => /\ engines = shadow[1].engines
           /\ counts = shadow[1].counts
           /\ ret # None => ret[1] = shadow[1].ret

\* a route-aware check on route 0 returned 1 against rules loaded by the legacy load
C9_Witness ==
    /\ done.call.fn = "engine_check_response_for_route"
    /\ done.call.rid = 0
    /\ done.chk.st.k = "loaded"
    /\ done.chk.st.fn = "engine_load_rules"
    /\ done.ret = 1

\* the pipeline stages a blob passes, each judged on its own
StagePresence(blob) == ~blob.null /\ blob.len > 0

StageEncoding(blob) == Utf8Valid(blob.data) /\ Base64Decode(blob.data).ok

StageShape(blob) == JsonParseStrings(Base64Decode(blob.data).bytes).ok

FirstFailure(blob, build) ==
    IF ~StagePresence(blob) THEN -1
    ELSE IF ~StageEncoding(blob) THEN -2
    ELSE IF ~StageShape(blob) THEN -3
    ELSE IF ~build THEN -4
    ELSE 0

\* C10: a load returns the code of the first stage that fails, in the order
\* presence (-1), text/base64 encoding (-2), JSON shape (-3), build (-4), and
\* 0 when none fails.
C10_FirstFailingStage ==
    DoneLoad => done.ret = FirstFailure(done.call.blob, done.call.build)

\* a blob that is not a JSON array of strings, with a failing build: -3
C10_Witness ==
    /\ DoneLoad
    /\ StagePresence(done.call.blob)
    /\ StageEncoding(done.call.blob)
    /\ ~StageShape(done.call.blob)
    /\ ~done.call.build
    /\ done.ret = -3

\* C11: a check changes neither map in any of its steps, and a check during
\* which its route had one binding only returns the result of that binding,
\* whatever other checks run at the same time.
C11_CheckSideEffectFree ==
    DoneCheck =>
        /\ ~done.dirty
        /\ (ValidText(done.call.content) /\ Cardinality(done.chk.cands) = 1)
              => \A b \in done.chk.cands :
                    done.ret = ResultOf(b, done.call.content.bytes)

\* a check of "ab" against ["ab"] returned 1 while the other thread is in the
\* scan of a check of its own, and the registry still holds the entry
C11_Witness ==
    /\ DoneCheck
    /\ done.ret = 1
    /\ ~done.dirty
    /\ \E u \in Threads \ {done.by} : InCheck(u) /\ pc[u] = "check_scan"
    /\ EntryOf(done.call.rid) = Loaded(PatAB)

\* the locks a thread holds
Held(t) ==
    {l \in {"engines", "counts"} :
        LET lock == IF l = "engines" THEN engLock ELSE cntLock
        IN  t \in lock.writer \cup lock.readers}

\* C12: a check that is in its scan holds no lock, and a thread holds a read
\* guard of ROUTE_ENGINES only between acquiring it and resolving the handle.
C12_ScanHoldsNoLock ==
    \A t \in Threads :
        /\ pc[t] = "check_scan" => Held(t) = {}
        /\ t \in engLock.readers => pc[t] = "check_engines_get"

\* a check is in its scan while a write holds the write lock of ROUTE_ENGINES
C12_Witness ==
    \E t, u \in Threads :
        /\ pc[t] = "check_scan"
        /\ engLock.writer = {u}
        /\ InWrite(u)

\* C13: the handle a check scans with, and the absence it reports, is a
\* binding its route had at some instant since the check was called.
C13_BindingCurrentSinceCall ==
    [][\A t \in Threads :
          /\ pc'[t] = "check_scan" => ac'[t] \in chk'[t].cands
          /\ (pc[t] = "check_engines_get" /\ pc'[t] = "idle")
                => (None \in done'.chk.cands /\ ret' = Some(0))]_vars

\* a check resolved ["b","b"], which replaced the ["ab"] bound when it was called
C13_Witness ==
    \E t \in Threads :
        /\ pc[t] = "check_scan"
        /\ ac[t] = Some(AhoCorasickNew(PatBB))
        /\ chk[t].cands = {Some(AhoCorasickNew(PatAB)), Some(AhoCorasickNew(PatBB))}

DoneClearRoute == done.call.fn = "engine_clear_route_rules"

DoneClearAll == done.call.fn = "engine_clear_all_rules"

\* C14: with one caller, a clear of a route and a clear of all routes return
\* 0; a clear of route r leaves the two maps as they were when it was called
\* less r, so that a clear called on what a clear of r has left (r in neither
\* map) leaves exactly that.
C14_ClearIdempotentTotal ==
    /\ (DoneClearRoute \/ DoneClearAll) => done.ret = 0
    /\ (DoneClearRoute /\ before # None) =>
          LET r == done.call.rid
              pre == before[1]
          IN  /\ engines = MapRemove(pre.engines, r)
              /\ counts = MapRemove(pre.counts, r)
              /\ r \notin DOMAIN engines \cup DOMAIN counts
              /\ (r \notin DOMAIN pre.engines \cup DOMAIN pre.counts)
                    => Snapshot = pre

\* route 1 was loaded with ["ab"] and cleared, and a second clear of it has
\* returned 0 and left the maps as the first clear left them
C14_Witness ==
    /\ DoneClearRoute
    /\ done.call.rid = 1
    /\ done.ret = 0
    /\ status[1] = StatusOf("cleared", Some(PatAB), "engine_clear_route_rules")
    /\ before # None
    /\ 1 \notin DOMAIN before[1].engines \cup DOMAIN before[1].counts
    /\ Snapshot = before[1]

\* C15: with one caller, a load of encode([]) whose build succeeds returns 0
\* and leaves its route bound to the matcher of no patterns with count 0;
\* a check on a route whose last write is that load returns 0 for every text.
C15_EmptySetAccepted ==
    /\ (DoneLoad /\ done.call.blob = Encoding[PatEmpty] /\ done.call.build)
          => /\ done.ret = 0
             /\ before # None => EntryOf(done.call.rid) = Loaded(PatEmpty)
    /\ (DoneCheck /\ done.chk.st.k = "loaded" /\ done.chk.st.p = PatEmpty)
          => done.ret = 0

\* a check of "ab" on route 1, loaded with [], returned 0
C15_Witness ==
    /\ DoneCheck
    /\ done.call.rid = 1
    /\ done.call.content = CStr(<<97, 98>>)
    /\ done.chk.st.k = "loaded"
    /\ done.chk.st.p = PatEmpty
    /\ EntryOf(1) = Entry(Some(AhoCorasickNew(<<>>)), Some(0))
    /\ done.ret = 0

\* C16: a check whose text is a null pointer or is not valid UTF-8 returns 0.
C16_BadTextNoMatch ==
    (DoneCheck /\ ~ValidText(done.call.content)) => done.ret = 0

\* a check of a text that is not UTF-8 returned 0 on a route loaded with [""],
\* which matches every valid text
C16_Witness ==
    /\ DoneCheck
    /\ ~done.call.content.null
    /\ ~Utf8Valid(done.call.content.bytes)
    /\ done.chk.st.k = "loaded"
    /\ done.chk.st.p = PatBlank
    /\ done.ret = 0

\* C17: under fair scheduling every call returns: a thread that is in a call
\* is eventually in none.
C17_EveryCallReturns ==
    \A t \in Threads : (pc[t] # "idle") ~> (pc[t] = "idle")

\* a load waits for the write lock of ROUTE_ENGINES that a clear-all holds
\* while the other map is still to be written by both
C17_Witness ==
    \E t, u \in Threads :
        /\ pc[t] = "load_engines_write"
        /\ pc[u] = "clearall_engines_clear"
        /\ engLock.writer = {u}

\* C18: between resolving its handle and returning, a check keeps the matcher
\* and the text it has, and it returns the result of that matcher on that
\* text, whatever has become of its route in the registry meanwhile.
C18_HandleStaysValid ==
    [][\A t \in Threads :
          pc[t] = "check_scan" =>
             /\ pc'[t] = "check_scan" => (ac'[t] = ac[t] /\ text'[t] = text[t])
             /\ pc'[t] = "idle" => ret' = Some(ResultOf(ac[t], text[t]))]_vars

\* a check of "ab" returned 1, the result of the ["ab"] it resolved, after its
\* route was cleared
C18_Witness ==
    /\ DoneCheck
    /\ done.call.content = CStr(<<97, 98>>)
    /\ done.ret = 1
    /\ done.chk.cands = {Some(AhoCorasickNew(PatAB)), None}
    /\ MapGet(engines, done.call.rid) = None

\* the call a step of thread t belongs to (NoCall when the step is not t's)
ActingCall(t) ==
    IF pc[t] # "idle" THEN (IF pc'[t] # pc[t] THEN call[t] ELSE NoCall)
    ELSE IF call'[t] # NoCall THEN call'[t]
    ELSE IF done'.by = t THEN done'.call
    ELSE NoCall

\* C19: a step of a load or of a clear of route r leaves the matcher binding
\* and the pattern count of every other route as they are.
C19_RoutesIndependent ==
    [][\A t \in Threads :
          ActingCall(t).fn \in LoadFns \cup {"engine_clear_route_rules"} =>
             \A r \in Routes \ {ActingCall(t).rid} :
                /\ MapGet(engines', r) = MapGet(engines, r)
                /\ MapGet(counts', r) = MapGet(counts, r)]_vars

\* route 0 was loaded and then cleared while route 1 keeps ["ab"] and count 1
C19_Witness ==
    /\ DoneClearRoute
    /\ done.call.rid = 0
    /\ done.dirty
    /\ status[1] = StatusOf("loaded", PatAB, "engine_load_route_rules")
    /\ EntryOf(1) = Loaded(PatAB)
    /\ EntryOf(0) = Absent

\* C20: when no write on route r is running and the writes on r since the
\* last one that overlapped another write on r have ended with a load of P,
\* r has the matcher of P and the count Len(P), duplicates included; when they
\* have ended with a clear, or there was no write at all, r is in neither map.
\* With no overlapping writes at all, the two maps so have the same keys after
\* each write.
C20_CountsFollowLoads ==
    /\ \A r \in Routes :
          NoWriteOn(r) =>
             /\ status[r].k = "loaded" => EntryOf(r) = Loaded(status[r].p)
             /\ status[r].k \in {"never", "cleared"} => EntryOf(r) = Absent
    /\ (\A r \in Routes : NoWriteOn(r) /\ status[r].k \in {"never", "loaded", "cleared"})
          => DOMAIN engines = DOMAIN counts

\* a load of ["b","b"] on route 1 returned and the count of route 1 is 2,
\* while route 0 holds ["ab"] with count 1
C20_Witness ==
    /\ DoneLoad
    /\ done.ret = 0
    /\ done.call.rid = 1
    /\ status[1].k = "loaded"
    /\ status[1].p = PatBB
    /\ counts = (0 :> 1 @@ 1 :> 2)
    /\ DOMAIN engines = {0, 1}
    /\ \A t \in Threads : ~InWrite(t)

====
